---- MODULE Spec2Model ----
(***************************************************************************)
(* Interval branch-and-bound minimisation (optimization-mpi.cpp).         *)
(*                                                                         *)
(* Coordinates and function values are fixed-point numbers: a double v of  *)
(* the program is the integer v * Unit.  Every box the program reaches is  *)
(* dyadic in the initial box, so the midpoint computed by split_box is     *)
(* exact in this representation: a box is split at most five times before *)
(* its width is at most the smallest threshold, Unit \div 4.               *)
(***************************************************************************)
EXTENDS Integers, Sequences, FiniteSets, TLC

\* ---------------------------------------------------------------- bounds
BoxW == 4          \* the initial box is [0,BoxW] x [0,BoxW]
MaxPlateau == 1    \* the objective is flat within 0..MaxPlateau of its centre
MaxSlack == 1      \* over-estimation of the enclosure, 0..MaxSlack

Unit == 2^5        \* fixed-point scale: 5 fractional bits
Inf == 100000      \* numeric_limits<double>::infinity()

\* the precisions entered: 0.5, 1, 2 and 16 (more than twice the width of
\* any initial box), and 0.25 for the runs of main, whose engine starts two
\* splits below the initial box
Thresholds == {Unit \div 2, Unit, 2 * Unit, 16 * Unit}
ThresholdsMPI == Thresholds \cup {Unit \div 4}

Min2(a, b) == IF a <= b THEN a ELSE b
Max2(a, b) == IF a >= b THEN a ELSE b
Abs(a) == IF a >= 0 THEN a ELSE -a

\* ------------------------------------------------------------- intervals
interval(l, r) == [l |-> l, r |-> r]
mid(i) == (i.l + i.r) \div 2
width(i) == i.r - i.l

\* ------------------------------------------------------------- objective
\* The objectives of the run: f(x,y) = max(|x-a|-w,0) + max(|y-b|-w,0),
\* with centre (a,b) on the unit grid of the initial box and plateau w;
\* its interval extension is the exact range widened by the slack s on
\* both sides.  w = BoxW makes f constant (enclosures with left = right
\* when s = 0).
Objectives ==
  [kind : {"plateau"},
   a : {k * Unit : k \in 0..BoxW}, b : {k * Unit : k \in 0..BoxW},
   w : {k * Unit : k \in 0..MaxPlateau} \cup {BoxW * Unit},
   s : 0..MaxSlack]

DistLo(i, c) == IF i.l <= c /\ c <= i.r THEN 0
                ELSE Min2(Abs(i.l - c), Abs(i.r - c))
DistHi(i, c) == Max2(Abs(i.l - c), Abs(i.r - c))
TermLo(i, c, w) == Max2(DistLo(i, c) - w, 0)
TermHi(i, c, w) == Max2(DistHi(i, c) - w, 0)

\* f(x,y) = x^2 + y^2 with the natural interval extension, which is its
\* exact range over a box
Sphere == [kind |-> "sphere", a |-> 0, b |-> 0, w |-> 0, s |-> 0]
SqrLo(i) == IF i.l <= 0 /\ 0 <= i.r THEN 0 ELSE Min2(i.l * i.l, i.r * i.r)
SqrHi(i) == Max2(i.l * i.l, i.r * i.r)

\* true range of the objective over the box (x,y)
RangeLo(fn, x, y) ==
  IF fn.kind = "sphere" THEN SqrLo(x) + SqrLo(y)
  ELSE TermLo(x, fn.a, fn.w) + TermLo(y, fn.b, fn.w)
RangeHi(fn, x, y) ==
  IF fn.kind = "sphere" THEN SqrHi(x) + SqrHi(y)
  ELSE TermHi(x, fn.a, fn.w) + TermHi(y, fn.b, fn.w)

\* fxy = f(x,y): the enclosure the objective's interval extension returns
F(fn, x, y) == interval(RangeLo(fn, x, y) - fn.s, RangeHi(fn, x, y) + fn.s)

\* split_box with xr running from the left end to the midpoint
split_box_SameHalf(x, y) ==
  LET xm == mid(x)
      ym == mid(y)
  IN  [xl |-> interval(x.l, xm), xr |-> interval(x.l, xm),
       yl |-> interval(y.l, ym), yr |-> interval(ym, y.r)]

\* ------------------------------------------------------------- split_box
split_box(x, y) ==
  LET xm == mid(x)
      ym == mid(y)
  IN  [xl |-> interval(x.l, xm), xr |-> interval(xm, x.r),
       yl |-> interval(y.l, ym), yr |-> interval(ym, y.r)]

\* the k-th recursive call of minimize: (xl,yl), (xl,yr), (xr,yl), (xr,yr)
SubBox(x, y, k) ==
  LET s == split_box(x, y)
  IN  CASE k = 1 -> [x |-> s.xl, y |-> s.yl]
        [] k = 2 -> [x |-> s.xl, y |-> s.yr]
        [] k = 3 -> [x |-> s.xr, y |-> s.yl]
        [] k = 4 -> [x |-> s.xr, y |-> s.yr]

\* ---------------------------------------------------------- minimizer_list
\* A multiset of minimizers ordered by min_lb, kept as the sequence of its
\* iteration order.
minimizer(x, y, lb, ub) == [x |-> x, y |-> y, min_lb |-> lb, min_ub |-> ub]

\* ml.lower_bound(minimizer{0,0,key,0}): position of the first element
\* whose min_lb is not less than key (Len+1 is ml.end())
lower_bound(ml, key) ==
  IF \E i \in 1..Len(ml) : ~(ml[i].min_lb < key)
  THEN CHOOSE i \in 1..Len(ml) :
         /\ ~(ml[i].min_lb < key)
         /\ \A j \in 1..(i-1) : ml[j].min_lb < key
  ELSE Len(ml) + 1

\* ml.erase(pos, ml.end())
erase(ml, pos) == SubSeq(ml, 1, pos - 1)

\* ml.insert(m): after the last element whose min_lb is not greater
insert(ml, m) ==
  LET n == Cardinality({i \in 1..Len(ml) : ml[i].min_lb <= m.min_lb})
  IN  SubSeq(ml, 1, n) \o <<m>> \o SubSeq(ml, n + 1, Len(ml))

IsSorted(ml) == \A i, j \in 1..Len(ml) : i < j => ml[i].min_lb <= ml[j].min_lb

\* ------------------------------------------------------------------ state
Ranks == 0..3      \* the four processes of MPI_COMM_WORLD
Workers == 1..3

VARIABLES
  fun,          \* opt_fun_t fun: the objective f and its initial box x, y
  threshold,    \* threshold / precision
  stack,        \* activation records of minimize, innermost last
  min_ub,       \* main's min_ub (the caller's bound in a sequential run)
  ml,           \* minimums, the list of minimizers
  local_min_ub, \* local_min_ub of the use_mpi activation
  pc,           \* position of each process in main
  carre,        \* carre[0..3] of the coordinator (read back as p)
  reqs,         \* sources of the receives posted with MPI_Irecv
  bcast,        \* payloads handed to MPI_Bcast by the root, in order
  joined,       \* processes that have called MPI_Bcast
  reduce,       \* contributions handed to MPI_Reduce, by rank
  msgs,         \* point-to-point messages sent and not yet received
  visited       \* the boxes f has been evaluated on, with the outcome

vars == <<fun, threshold, stack, min_ub, ml, local_min_ub,
          pc, carre, reqs, bcast, joined, reduce, msgs, visited>>
engine == <<stack, min_ub, ml, local_min_ub, visited>>
mpi == <<pc, carre, reqs, bcast, joined, reduce, msgs>>

InitX == interval(0, BoxW * Unit)
InitY == interval(0, BoxW * Unit)

\* a box of zero width, and the box [-2,2] x [-2,2] of the sphere
FlatX == interval(2 * Unit, 2 * Unit)
SphereX == interval(-2 * Unit, 2 * Unit)

\* the entries of the function registry: an objective with its initial box
Functions ==
  [f : Objectives, x : {InitX, FlatX}, y : {InitY}]
    \cup {[f |-> Sphere, x |-> SphereX, y |-> SphereX]}

NoBox == [x |-> interval(0, 0), y |-> interval(0, 0)]
Empty == [r \in {} |-> 0]

\* an activation of minimize(f,x,y,threshold,min_ub,ml,use_mpi): at is the
\* position in the body, k the next recursive call to make, ref the
\* variable its min_ub parameter is bound to
frame(x, y, use_mpi, ref, depth) ==
  [x |-> x, y |-> y, use_mpi |-> use_mpi, ref |-> ref,
   at |-> "enter", k |-> 1, depth |-> depth]

Top == stack[Len(stack)]
Pop == SubSeq(stack, 1, Len(stack) - 1)
SetTop(fr) == [stack EXCEPT ![Len(stack)] = fr]

\* the bound an activation reads and writes through its reference
Bound(fr) == IF fr.ref = "local_min_ub" THEN local_min_ub ELSE min_ub
SetBound(fr, v) ==
  IF fr.ref = "local_min_ub"
  THEN local_min_ub' = v /\ min_ub' = min_ub
  ELSE min_ub' = v /\ local_min_ub' = local_min_ub

\* the record of the evaluation of f on the box of an activation
Visit(fr, pruned) == [x |-> fr.x, y |-> fr.y, depth |-> fr.depth, pruned |-> pruned]

\* ---------------------------------------------------------------- minimize
\* Prune with the test of line 30 taken as fxy.left() >= min_ub
Prune_AtBound ==
  /\ stack # <<>> /\ Top.at = "enter"
  /\ F(fun.f, Top.x, Top.y).l >= Bound(Top)
  /\ stack' = Pop
  /\ UNCHANGED <<fun, threshold, min_ub, ml, local_min_ub, mpi>>
  /\ visited' = visited \cup {Visit(Top, TRUE)}

\* lines 28-32: the box cannot contain the minimum
Prune ==
  /\ stack # <<>> /\ Top.at = "enter"
  /\ F(fun.f, Top.x, Top.y).l > Bound(Top)
  /\ stack' = Pop
  /\ UNCHANGED <<fun, threshold, min_ub, ml, local_min_ub, mpi>>
  /\ visited' = visited \cup {Visit(Top, TRUE)}

\* Tighten without the erase of lines 38-39
Tighten_NoErase ==
  /\ stack # <<>> /\ Top.at = "enter"
  /\ LET fxy == F(fun.f, Top.x, Top.y) IN
       /\ ~(fxy.l > Bound(Top))
       /\ fxy.r < Bound(Top)
       /\ SetBound(Top, fxy.r)
       /\ ml' = ml
  /\ stack' = SetTop([Top EXCEPT !.at = "check"])
  /\ UNCHANGED <<fun, threshold, mpi>>
  /\ visited' = visited \cup {Visit(Top, FALSE)}

\* Tighten taking the left end of the enclosure as the new bound
Tighten_Left ==
  /\ stack # <<>> /\ Top.at = "enter"
  /\ LET fxy == F(fun.f, Top.x, Top.y) IN
       /\ ~(fxy.l > Bound(Top))
       /\ fxy.r < Bound(Top)
       /\ SetBound(Top, fxy.l)
       /\ ml' = erase(ml, lower_bound(ml, fxy.l))
  /\ stack' = SetTop([Top EXCEPT !.at = "check"])
  /\ UNCHANGED <<fun, threshold, mpi>>
  /\ visited' = visited \cup {Visit(Top, FALSE)}

\* Tighten discarding from upper_bound(min_ub) on: the saved boxes with
\* min_lb equal to the new bound stay
Tighten_KeepEqual ==
  /\ stack # <<>> /\ Top.at = "enter"
  /\ LET fxy == F(fun.f, Top.x, Top.y) IN
       /\ ~(fxy.l > Bound(Top))
       /\ fxy.r < Bound(Top)
       /\ SetBound(Top, fxy.r)
       /\ ml' = erase(ml, lower_bound(ml, fxy.r + 1))
  /\ stack' = SetTop([Top EXCEPT !.at = "check"])
  /\ UNCHANGED <<fun, threshold, mpi>>
  /\ visited' = visited \cup {Visit(Top, FALSE)}

\* Tighten without the test of line 34
Tighten_Always ==
  /\ stack # <<>> /\ Top.at = "enter"
  /\ LET fxy == F(fun.f, Top.x, Top.y) IN
       /\ ~(fxy.l > Bound(Top))
       /\ SetBound(Top, fxy.r)
       /\ ml' = erase(ml, lower_bound(ml, fxy.r))
  /\ stack' = SetTop([Top EXCEPT !.at = "check"])
  /\ UNCHANGED <<fun, threshold, mpi>>
  /\ visited' = visited \cup {Visit(Top, FALSE)}

\* lines 28-40: the box gives a new upper bound; the saved boxes from
\* lower_bound(min_ub) on are discarded
Tighten ==
  /\ stack # <<>> /\ Top.at = "enter"
  /\ LET fxy == F(fun.f, Top.x, Top.y) IN
       /\ ~(fxy.l > Bound(Top))
       /\ fxy.r < Bound(Top)
       /\ SetBound(Top, fxy.r)
       /\ ml' = erase(ml, lower_bound(ml, fxy.r))
  /\ stack' = SetTop([Top EXCEPT !.at = "check"])
  /\ UNCHANGED <<fun, threshold, mpi>>
  /\ visited' = visited \cup {Visit(Top, FALSE)}

\* lines 28-40 when neither test holds
Keep ==
  /\ stack # <<>> /\ Top.at = "enter"
  /\ LET fxy == F(fun.f, Top.x, Top.y) IN
       /\ ~(fxy.l > Bound(Top))
       /\ ~(fxy.r < Bound(Top))
  /\ stack' = SetTop([Top EXCEPT !.at = "check"])
  /\ UNCHANGED <<fun, threshold, min_ub, ml, local_min_ub, mpi>>
  /\ visited' = visited \cup {Visit(Top, FALSE)}

\* lines 45-49: the box is small enough, it is saved and the call returns
Leaf ==
  /\ stack # <<>> /\ Top.at = "check"
  /\ width(Top.x) <= threshold
  /\ LET fxy == F(fun.f, Top.x, Top.y) IN
       ml' = insert(ml, minimizer(Top.x, Top.y, fxy.l, fxy.r))
  /\ stack' = Pop
  /\ UNCHANGED <<fun, threshold, min_ub, local_min_ub, mpi>>
  /\ UNCHANGED visited

\* Split with the test of line 45 taken as width < threshold
Split_Strict ==
  /\ stack # <<>> /\ Top.at = "check"
  /\ ~(width(Top.x) < threshold)
  /\ ~Top.use_mpi
  /\ stack' = SetTop([Top EXCEPT !.at = "calls"])
  /\ UNCHANGED <<fun, threshold, min_ub, ml, local_min_ub, mpi>>
  /\ UNCHANGED visited

\* lines 53-54, 75: the box is split, use_mpi is false
Split ==
  /\ stack # <<>> /\ Top.at = "check"
  /\ ~(width(Top.x) <= threshold)
  /\ ~Top.use_mpi
  /\ stack' = SetTop([Top EXCEPT !.at = "calls"])
  /\ UNCHANGED <<fun, threshold, min_ub, ml, local_min_ub, mpi>>
  /\ UNCHANGED visited

\* Recurse with the second call made on (xl,yl) again
Recurse_Twice ==
  /\ stack # <<>> /\ Top.at = "calls" /\ Top.k <= 4
  /\ LET b == SubBox(Top.x, Top.y, IF Top.k = 2 THEN 1 ELSE Top.k) IN
       stack' = Append(SetTop([Top EXCEPT !.k = @ + 1]),
                       frame(b.x, b.y, FALSE, Top.ref, Top.depth + 1))
  /\ UNCHANGED <<fun, threshold, min_ub, ml, local_min_ub, mpi>>
  /\ UNCHANGED visited

\* lines 76-79: the k-th recursive call
Recurse ==
  /\ stack # <<>> /\ Top.at = "calls" /\ Top.k <= 4
  /\ LET b == SubBox(Top.x, Top.y, Top.k) IN
       stack' = Append(SetTop([Top EXCEPT !.k = @ + 1]),
                       frame(b.x, b.y, FALSE, Top.ref, Top.depth + 1))
  /\ UNCHANGED <<fun, threshold, min_ub, ml, local_min_ub, mpi>>
  /\ UNCHANGED visited

\* lines 80-81: the four calls have returned
Return ==
  /\ stack # <<>> /\ Top.at = "calls" /\ Top.k = 5
  /\ stack' = Pop
  /\ UNCHANGED <<fun, threshold, min_ub, ml, local_min_ub, mpi>>
  /\ UNCHANGED visited

\* minimize with use_mpi false, as the function from the bound and the list
\* at the call to the bound and the list at the return
RECURSIVE minimize(_, _, _, _, _)
minimize(f, x, y, thr, st) ==
  LET fxy == F(f, x, y)
      st1 == IF fxy.r < st.min_ub
             THEN [min_ub |-> fxy.r,
                   ml |-> erase(st.ml, lower_bound(st.ml, fxy.r))]
             ELSE st
      c1 == minimize(f, SubBox(x, y, 1).x, SubBox(x, y, 1).y, thr, st1)
      c2 == minimize(f, SubBox(x, y, 2).x, SubBox(x, y, 2).y, thr, c1)
      c3 == minimize(f, SubBox(x, y, 3).x, SubBox(x, y, 3).y, thr, c2)
      c4 == minimize(f, SubBox(x, y, 4).x, SubBox(x, y, 4).y, thr, c3)
  IN  IF fxy.l > st.min_ub THEN st
      ELSE IF width(x) <= thr
           THEN [st1 EXCEPT !.ml = insert(@, minimizer(x, y, fxy.l, fxy.r))]
           ELSE c4

\* minimize with use_mpi false and the four calls of lines 76-79 made in
\* the order ord, a permutation of 1..4
RECURSIVE minimize_in_order(_, _, _, _, _, _)
minimize_in_order(f, x, y, thr, st, ord) ==
  LET fxy == F(f, x, y)
      st1 == IF fxy.r < st.min_ub
             THEN [min_ub |-> fxy.r,
                   ml |-> erase(st.ml, lower_bound(st.ml, fxy.r))]
             ELSE st
      b(k) == SubBox(x, y, ord[k])
      c1 == minimize_in_order(f, b(1).x, b(1).y, thr, st1, ord)
      c2 == minimize_in_order(f, b(2).x, b(2).y, thr, c1, ord)
      c3 == minimize_in_order(f, b(3).x, b(3).y, thr, c2, ord)
      c4 == minimize_in_order(f, b(4).x, b(4).y, thr, c3, ord)
  IN  IF fxy.l > st.min_ub THEN st
      ELSE IF width(x) <= thr
           THEN [st1 EXCEPT !.ml = insert(@, minimizer(x, y, fxy.l, fxy.r))]
           ELSE c4

\* A sequential run of the engine: minimize(f, x, y, threshold, min_ub,
\* ml, false) called with min_ub = +oo and an empty list.
Init ==
  /\ fun \in Functions
  /\ threshold \in Thresholds
  /\ stack = <<frame(fun.x, fun.y, FALSE, "min_ub", 0)>>
  /\ min_ub = Inf
  /\ ml = <<>>
  /\ local_min_ub = Inf
  /\ pc = [r \in Ranks |-> "engine"]
  /\ carre = [r \in Ranks |-> NoBox]
  /\ reqs = {}
  /\ bcast = <<>>
  /\ joined = {}
  /\ reduce = Empty
  /\ msgs = {}
  /\ visited = {}



\* -------------------------------------------------------------------- main
Coordinator == 0

\* lines 53-61 with use_mpi: the box is split and local_min_ub is set
SplitMPI ==
  /\ stack # <<>> /\ Top.at = "check"
  /\ ~(width(Top.x) <= threshold)
  /\ Top.use_mpi
  /\ local_min_ub' = Bound(Top)
  /\ stack' = SetTop([Top EXCEPT !.at = "rank"])
  /\ UNCHANGED <<fun, threshold, min_ub, ml, mpi>>
  /\ UNCHANGED visited

\* lines 63-70: the call on the sub-box of the process's rank, bound to
\* local_min_ub and local_ml (the caller's list)
RecurseMPI(rank) ==
  /\ stack # <<>> /\ Top.at = "rank"
  /\ pc[rank] = "minimize"
  /\ LET b == SubBox(Top.x, Top.y, rank + 1) IN
       stack' = Append(SetTop([Top EXCEPT !.at = "reduce"]),
                       frame(b.x, b.y, FALSE, "local_min_ub", Top.depth + 1))
  /\ UNCHANGED <<fun, threshold, min_ub, ml, local_min_ub, mpi>>
  /\ UNCHANGED visited

\* line 72: the process enters MPI_Reduce with its local_min_ub and waits
\* for the other members of MPI_COMM_WORLD
ReduceEnter(rank) ==
  /\ stack # <<>> /\ Top.at = "reduce"
  /\ pc[rank] = "minimize"
  /\ reduce' = [r \in DOMAIN reduce \cup {rank} |->
                  IF r = rank THEN local_min_ub ELSE reduce[r]]
  /\ pc' = [pc EXCEPT ![rank] = "MPI_Reduce"]
  /\ UNCHANGED <<fun, threshold, engine, carre, reqs, bcast, joined, msgs>>

MinOf(c) == CHOOSE v \in {c[r] : r \in DOMAIN c} : \A r \in DOMAIN c : v <= c[r]

\* line 72, completion at the root: every member has contributed
ReduceReturn(rank) ==
  /\ pc[rank] = "MPI_Reduce"
  /\ DOMAIN reduce = Ranks
  /\ min_ub' = IF rank = Coordinator THEN MinOf(reduce) ELSE min_ub
  /\ stack' = Pop
  /\ pc' = [pc EXCEPT ![rank] = "minimize"]
  /\ UNCHANGED <<fun, threshold, ml, local_min_ub, carre, reqs, bcast,
                 joined, reduce, msgs>>
  /\ UNCHANGED visited

\* lines 144-150: the first split, kept in carre
MainSplit ==
  /\ pc[Coordinator] = "split"
  /\ carre' = [r \in Ranks |-> SubBox(fun.x, fun.y, r + 1)]
  /\ pc' = [pc EXCEPT ![Coordinator] = "irecv"]
  /\ UNCHANGED <<fun, threshold, engine, reqs, bcast, joined, reduce, msgs>>

\* lines 153-158: a receive from each worker is posted
MainIrecv ==
  /\ pc[Coordinator] = "irecv"
  /\ reqs' = Workers
  /\ pc' = [pc EXCEPT ![Coordinator] = "bcast"]
  /\ UNCHANGED <<fun, threshold, engine, carre, bcast, joined, reduce, msgs>>

\* lines 160-162: the root's three MPI_Bcast calls; the payloads are small
\* and the root returns without waiting for the receivers
MainBcast ==
  /\ pc[Coordinator] = "bcast"
  /\ bcast' = <<threshold, carre, fun>>
  /\ joined' = joined \cup {Coordinator}
  /\ pc' = [pc EXCEPT ![Coordinator] = "call"]
  /\ UNCHANGED <<fun, threshold, engine, carre, reqs, reduce, msgs>>

\* line 164: minimize(fun.f, p[rank].first, p[rank].second, precision,
\* min_ub, minimums, true)
MainCall ==
  /\ pc[Coordinator] = "call"
  /\ stack' = <<frame(carre[Coordinator].x, carre[Coordinator].y,
                      TRUE, "min_ub", 0)>>
  /\ pc' = [pc EXCEPT ![Coordinator] = "minimize"]
  /\ UNCHANGED <<fun, threshold, min_ub, ml, local_min_ub, carre, reqs,
                 bcast, joined, reduce, msgs>>
  /\ UNCHANGED visited

\* lines 166-168: minimize has returned, the coordinator enters
\* MPI_Wait(&reqs[0])
MainWait ==
  /\ pc[Coordinator] = "minimize"
  /\ stack = <<>>
  /\ pc' = [pc EXCEPT ![Coordinator] = "MPI_Wait"]
  /\ UNCHANGED <<fun, threshold, engine, carre, reqs, bcast, joined, reduce, msgs>>

\* lines 171-173: a worker enters MPI_Recv(source 0, tag 0)
WorkerRecv(r) ==
  /\ pc[r] = "start"
  /\ pc' = [pc EXCEPT ![r] = "MPI_Recv"]
  /\ UNCHANGED <<fun, threshold, engine, carre, reqs, bcast, joined, reduce, msgs>>

\* line 173, completion: a message from the coordinator with tag 0 has
\* arrived
RecvReturn(r) ==
  /\ pc[r] = "MPI_Recv"
  /\ [src |-> Coordinator, dst |-> r, tag |-> 0] \in msgs
  /\ msgs' = msgs \ {[src |-> Coordinator, dst |-> r, tag |-> 0]}
  /\ pc' = [pc EXCEPT ![r] = "send"]
  /\ UNCHANGED <<fun, threshold, engine, carre, reqs, bcast, joined, reduce>>

\* line 177: the worker sends its min_ub to the coordinator
WorkerSend(r) ==
  /\ pc[r] = "send"
  /\ msgs' = msgs \cup {[src |-> r, dst |-> Coordinator, tag |-> 0]}
  /\ pc' = [pc EXCEPT ![r] = "output"]
  /\ UNCHANGED <<fun, threshold, engine, carre, reqs, bcast, joined, reduce>>

\* lines 166-168, completion: the three posted receives have been matched
WaitReturn ==
  /\ pc[Coordinator] = "MPI_Wait"
  /\ \A w \in reqs : [src |-> w, dst |-> Coordinator, tag |-> 0] \in msgs
  /\ msgs' = msgs \ {[src |-> w, dst |-> Coordinator, tag |-> 0] : w \in reqs}
  /\ reqs' = {}
  /\ pc' = [pc EXCEPT ![Coordinator] = "output"]
  /\ UNCHANGED <<fun, threshold, engine, carre, bcast, joined, reduce>>

\* lines 179-185: the minimizers and the bound are printed, MPI_Finalize
Finalize(r) ==
  /\ pc[r] = "output"
  /\ pc' = [pc EXCEPT ![r] = "done"]
  /\ UNCHANGED <<fun, threshold, engine, carre, reqs, bcast, joined, reduce,
                 msgs>>

\* main on four processes: the coordinator has read the function and the
\* precision, the workers are at line 171
InitMPI ==
  /\ fun \in Functions
  /\ threshold \in ThresholdsMPI
  /\ stack = <<>>
  /\ min_ub = Inf
  /\ ml = <<>>
  /\ local_min_ub = Inf
  /\ pc = [r \in Ranks |-> IF r = Coordinator THEN "split" ELSE "start"]
  /\ carre = [r \in Ranks |-> NoBox]
  /\ reqs = {}
  /\ bcast = <<>>
  /\ joined = {}
  /\ reduce = Empty
  /\ msgs = {}
  /\ visited = {}

Engine == Prune \/ Tighten \/ Keep \/ Leaf \/ Split \/ Recurse \/ Return

NextMPI ==
  \/ MainSplit \/ MainIrecv \/ MainBcast \/ MainCall \/ MainWait
  \/ Engine
  \/ SplitMPI \/ RecurseMPI(Coordinator) \/ ReduceEnter(Coordinator)
  \/ \E r \in Workers : WorkerRecv(r)

\* the steps that follow a blocking call once it is matched
Blocked ==
  \/ ReduceReturn(Coordinator)
  \/ WaitReturn
  \/ \E r \in Workers : RecvReturn(r) \/ WorkerSend(r)
  \/ \E r \in Ranks : Finalize(r)

Next == Engine

Spec == Init /\ [][Next]_vars

\* the sequential run takes its next step whenever it has one
FairSpec == Spec /\ WF_vars(Next)

SpecMPI == InitMPI /\ [][NextMPI]_vars

\* every process runs whenever it can
FairSpecMPI == SpecMPI /\ WF_vars(NextMPI)

\* no blocking call of the run is ever matched: the steps of Blocked are
\* never enabled, which is why NextMPI leaves them out
NeverMatched == ~ENABLED Blocked

TypeOK == IsSorted(ml) /\ min_ub <= Inf /\ local_min_ub <= Inf

\* the sequential run computes what the function minimize computes
EngineAgrees ==
  (pc[Coordinator] = "engine" /\ stack = <<>>) =>
    [min_ub |-> min_ub, ml |-> ml] =
      minimize(fun.f, fun.x, fun.y, threshold, [min_ub |-> Inf, ml |-> <<>>])

\* ------------------------------------------------------------ properties
\* the true global minimum of the objective over the initial box
TrueMin == RangeLo(fun.f, fun.x, fun.y)

\* the box of the minimizer m holds a point where the objective attains
\* its global minimum over the initial box
HasMinimizer(m) == RangeLo(fun.f, m.x, m.y) = TrueMin

\* the outermost activation of minimize with use_mpi false is at index i:
\* the call that starts a sequential search
SearchRoot(i) ==
  /\ i \in 1..Len(stack)
  /\ ~stack[i].use_mpi
  /\ i = 1 \/ stack[i - 1].use_mpi

\* C1 as stated: in a sequential run, every saved minimizer has min_lb
\* strictly below the current upper bound.
C1_StrictlyBelowBound ==
  \A i \in 1..Len(ml) : ml[i].min_lb < min_ub

\* C1 amended: in a sequential run, after every tighten and every insert,
\* every saved minimizer has min_lb less than or equal to the current
\* upper bound.
C1_NotAboveBound ==
  \A i \in 1..Len(ml) : ml[i].min_lb <= min_ub

\* a saved minimizer sits exactly at the bound, next to another one
C1_Witness ==
  /\ min_ub < Inf
  /\ Len(ml) >= 2
  /\ \E i \in 1..Len(ml) : ml[i].min_lb = min_ub

\* C2: with four processes every run eventually completes: every process
\* reaches MPI_Finalize.
C2_RunCompletes ==
  <>(\A r \in Ranks : pc[r] = "done")

\* C3: every process that starts a sequential search starts it on the
\* quadrant of the first split of the initial box given by its rank, with
\* upper bound +oo and an empty list.
C3_SearchOwnQuadrant ==
  \A r \in Ranks : \A i \in 1..Len(stack) :
    (pc[r] = "minimize" /\ SearchRoot(i)) =>
      /\ [x |-> stack[i].x, y |-> stack[i].y] = SubBox(fun.x, fun.y, r + 1)
      /\ stack[i].at = "enter" => (Bound(stack[i]) = Inf /\ ml = <<>>)

\* C4: one level of decomposition: the box a sequential search starts on
\* has half the width and half the height of the initial box.
C4_OneLevel ==
  \A i \in 1..Len(stack) :
    (pc[Coordinator] = "minimize" /\ SearchRoot(i)) =>
      /\ 2 * width(stack[i].x) = width(fun.x)
      /\ 2 * width(stack[i].y) = width(fun.y)

\* C5: the run ends with the coordinator's bound equal to the minimum of
\* the four bounds handed to the reduction.
C5_ReportsMinimum ==
  <>(/\ pc[Coordinator] = "done"
     /\ DOMAIN reduce = Ranks
     /\ min_ub = MinOf(reduce))

\* C6: the run ends with the coordinator's bound at most the bound of a
\* sequential run over the whole initial box with the same threshold.
C6_NotWorseThanSequential ==
  <>(/\ pc[Coordinator] = "done"
     /\ min_ub <= minimize(fun.f, fun.x, fun.y, threshold,
                           [min_ub |-> Inf, ml |-> <<>>]).min_ub)

\* the first box of the run has been evaluated
Evaluated ==
  \/ stack # <<>> /\ (Len(stack) > 1 \/ Top.at # "enter")
  \/ stack = <<>> /\ pc[Coordinator] \in {"engine", "MPI_Wait"}

C8_Monotone ==
  [][min_ub' <= min_ub]_vars

\* the bound has gone below the enclosure of the initial box
C8_Witness ==
  /\ min_ub < F(fun.f, fun.x, fun.y).r
  /\ Len(stack) > 1

\* C9: no minimizer removed by the tighten step holds a point where the
\* objective attains its global minimum.
C9_EvictedHoldNoMinimum ==
  [][\A i \in 1..Len(ml) : i > Len(ml') => ~HasMinimizer(ml[i])]_vars

\* C10: whenever an activation of minimize exists, all four processes have
\* taken part in the broadcast.
C10_BroadcastBeforeSearch ==
  stack # <<>> => joined = Ranks

\* ceil(log2(w / t)) for a width w and a threshold t > 0: the least d with
\* w <= t * 2^d, and LogRange below zero when w = 0
LogRange == 16
Fits(w, t, d) == IF d >= 0 THEN w <= t * 2^d ELSE w * 2^(-d) <= t
CeilLog2(w, t) ==
  CHOOSE d \in (-LogRange)..LogRange :
    /\ Fits(w, t, d)
    /\ d = -LogRange \/ ~Fits(w, t, d - 1)

\* C11 as stated: a sequential run terminates and no activation is deeper
\* than ceil(log2(initial_width / threshold)).
C11_DepthAndTermination ==
  /\ [](\A i \in 1..Len(stack) :
          stack[i].depth <= CeilLog2(width(fun.x), threshold))
  /\ <>(stack = <<>>)

\* C11 amended: a sequential run terminates and no activation is deeper
\* than max(0, ceil(log2(initial_width / threshold))).
C11_DepthAndTerminationFromZero ==
  /\ [](\A i \in 1..Len(stack) :
          stack[i].depth <= Max2(0, CeilLog2(width(fun.x), threshold)))
  /\ <>(stack = <<>>)

\* a leaf is being saved at the deepest level the bound allows, three
\* splits below the initial box
C11_Witness ==
  /\ stack # <<>>
  /\ Top.at = "check"
  /\ width(Top.x) <= threshold
  /\ Top.depth = CeilLog2(width(fun.x), threshold)
  /\ Top.depth = 3

\* C12: the run ends with every minimizer of the coordinator's list
\* strictly below the bound the coordinator reports.
C12_ReportedListBelowBound ==
  <>(/\ pc[Coordinator] = "done"
     /\ \A i \in 1..Len(ml) : ml[i].min_lb < min_ub)

\* the area of a box
Area(b) == width(b.x) * width(b.y)

\* the interiors of the boxes a and b are disjoint
Apart(a, b) ==
  \/ a.x.r <= b.x.l \/ b.x.r <= a.x.l
  \/ a.y.r <= b.y.l \/ b.y.r <= a.y.l

\* the box a lies inside the box b
Inside(a, b) ==
  /\ b.x.l <= a.x.l /\ a.x.r <= b.x.r
  /\ b.y.l <= a.y.l /\ a.y.r <= b.y.r

\* C13: the four boxes split_box gives for the box (x,y) are (xl,yl),
\* (xl,yr), (xr,yl), (xr,yr) with xl = [x.lo, x.mid], xr = [x.mid, x.hi],
\* yl = [y.lo, y.mid], yr = [y.mid, y.hi]; they lie inside the box, their
\* interiors are pairwise disjoint and their areas add up to its area.
C13_SplitTiles ==
  pc[Coordinator] \notin {"split", "engine"} =>
    LET b == [x |-> fun.x, y |-> fun.y]
        xl == carre[0].x
        xr == carre[3].x
        yl == carre[0].y
        yr == carre[3].y
    IN  /\ xl.l = fun.x.l /\ 2 * xl.r = fun.x.l + fun.x.r
        /\ 2 * xr.l = fun.x.l + fun.x.r /\ xr.r = fun.x.r
        /\ yl.l = fun.y.l /\ 2 * yl.r = fun.y.l + fun.y.r
        /\ 2 * yr.l = fun.y.l + fun.y.r /\ yr.r = fun.y.r
        /\ carre[1] = [x |-> xl, y |-> yr]
        /\ carre[2] = [x |-> xr, y |-> yl]
        /\ \A r \in Ranks : Inside(carre[r], b)
        /\ \A r, q \in Ranks : r # q => Apart(carre[r], carre[q])
        /\ Area(carre[0]) + Area(carre[1]) + Area(carre[2]) + Area(carre[3])
             = Area(b)

\* the box of zero width has been split
C13_Witness ==
  /\ pc[Coordinator] = "irecv"
  /\ width(fun.x) = 0
  /\ width(carre[0].x) = 0 /\ width(carre[3].x) = 0
  /\ width(carre[0].y) > 0

\* the sequential run has returned
RunEnded == pc[Coordinator] = "engine" /\ stack = <<>>

\* the sum of the areas of a set of boxes
RECURSIVE SumArea(_)
SumArea(S) ==
  IF S = {} THEN 0
  ELSE LET b == CHOOSE v \in S : TRUE IN Area(b) + SumArea(S \ {b})

\* the boxes evaluated at depth d, and those pruned above depth d
AtDepth(d) == {v \in visited : v.depth = d}
PrunedAbove(d) == {v \in visited : v.pruned /\ v.depth < d}

\* C14 as stated: at the end of a run, the boxes evaluated at each depth
\* reached tile the initial box.
C14_EachDepthTiles ==
  RunEnded =>
    \A d \in {v.depth : v \in visited} :
      /\ \A a, b \in AtDepth(d) : a # b => Apart(a, b)
      /\ \A a \in AtDepth(d) : Inside(a, [x |-> fun.x, y |-> fun.y])
      /\ SumArea(AtDepth(d)) = Area([x |-> fun.x, y |-> fun.y])

\* C14 amended: at the end of a run, the boxes evaluated at each depth
\* reached lie in the initial box with pairwise disjoint interiors, and
\* together with the boxes pruned at smaller depths they tile it.
C14_EachDepthTilesUnpruned ==
  RunEnded =>
    \A d \in {v.depth : v \in visited} :
      /\ \A a, b \in AtDepth(d) \cup PrunedAbove(d) : a # b => Apart(a, b)
      /\ \A a \in AtDepth(d) : Inside(a, [x |-> fun.x, y |-> fun.y])
      /\ SumArea(AtDepth(d)) + SumArea(PrunedAbove(d))
           = Area([x |-> fun.x, y |-> fun.y])

\* a run has ended in which a box was pruned above the deepest level
C14_Witness ==
  /\ RunEnded
  /\ \E v, u \in visited : v.pruned /\ v.depth < u.depth

\* the run of the sphere x^2 + y^2 over [-2,2] x [-2,2] with threshold 0.5
\* has ended
SphereRunEnded ==
  /\ RunEnded
  /\ fun = [f |-> Sphere, x |-> SphereX, y |-> SphereX]
  /\ threshold = Unit \div 2

\* C15 as stated: the run of the sphere ends with upper bound 0 and no
\* saved minimizer with min_lb above 0.
C15_SphereBoundZero ==
  SphereRunEnded =>
    /\ min_ub = 0
    /\ \A i \in 1..Len(ml) : ~(ml[i].min_lb > 0)

\* C15 amended: the run of the sphere ends with upper bound 0.5 (the right
\* end of the enclosure of a leaf box at the origin), no saved minimizer
\* has min_lb above 0.5, and a saved minimizer has min_lb 0.
C15_SphereBoundHalf ==
  SphereRunEnded =>
    /\ 2 * min_ub = Unit * Unit
    /\ \A i \in 1..Len(ml) : ~(2 * ml[i].min_lb > Unit * Unit)
    /\ \E i \in 1..Len(ml) : ml[i].min_lb = 0

\* the run of the sphere has ended with fifteen saved minimizers, some of
\* them with min_lb above 0
C15_Witness ==
  /\ SphereRunEnded
  /\ Len(ml) = 15
  /\ \E i \in 1..Len(ml) : ml[i].min_lb > 0

\* the step evaluates the box of the current activation and goes on to the
\* test of line 45: lines 34-40 have run
TightenStep ==
  /\ stack # <<>> /\ Top.at = "enter"
  /\ Len(stack') = Len(stack)
  /\ stack'[Len(stack')].at = "check"

\* the saved minimizers with min_lb below v, in their order
Below(list, v) ==
  LET Test(m) == m.min_lb < v IN SelectSeq(list, Test)

Orders == {o \in [1..4 -> 1..4] : \A i, j \in 1..4 : i # j => o[i] # o[j]}

\* the minimizers of a list, as a set
Entries(list) == {list[i] : i \in 1..Len(list)}

\* C17: at the end of a sequential run, the bound and the set of saved
\* minimizers are those of the run made in any other order of the four
\* recursive calls.
C17_OrderIndependent ==
  RunEnded =>
    \A o \in Orders :
      LET res == minimize_in_order(fun.f, fun.x, fun.y, threshold,
                                   [min_ub |-> Inf, ml |-> <<>>], o)
      IN  res.min_ub = min_ub /\ Entries(res.ml) = Entries(ml)

\* C18: when the call of minimize with use_mpi true has returned, the
\* process has handed its bound to the reduction.
C18_ReducedBeforeReturn ==
  \A r \in Ranks :
    (pc[r] = "MPI_Wait" /\ stack = <<>>) => r \in DOMAIN reduce

\* the leaf boxes of the subdivision of the box (x,y): the boxes of width
\* at most thr that repeated splitting gives
RECURSIVE LeafBoxes(_, _, _)
LeafBoxes(x, y, thr) ==
  IF width(x) <= thr THEN {[x |-> x, y |-> y]}
  ELSE UNION {LeafBoxes(SubBox(x, y, k).x, SubBox(x, y, k).y, thr) :
                k \in 1..4}

\* C19: at the end of a sequential run the list is not empty, one of its
\* minimizers holds a point where the objective attains its global
\* minimum, and every leaf box with min_lb strictly below the final bound
\* is in the list.
C19_MinimumKept ==
  RunEnded =>
    /\ Len(ml) >= 1
    /\ \E i \in 1..Len(ml) : HasMinimizer(ml[i])
    /\ \A b \in LeafBoxes(fun.x, fun.y, threshold) :
         F(fun.f, b.x, b.y).l < min_ub =>
           \E i \in 1..Len(ml) :
             ml[i] = minimizer(b.x, b.y, F(fun.f, b.x, b.y).l,
                               F(fun.f, b.x, b.y).r)

\* a run has ended with a leaf box left out of the list and with a saved
\* minimizer that holds no minimum
C19_Witness ==
  /\ RunEnded
  /\ \E b \in LeafBoxes(fun.x, fun.y, threshold) :
       \A i \in 1..Len(ml) : ml[i].x # b.x \/ ml[i].y # b.y
  /\ \E i \in 1..Len(ml) : ~HasMinimizer(ml[i])
  /\ \E i \in 1..Len(ml) : HasMinimizer(ml[i])
====
